---- MODULE Spec2Model ----
(***************************************************************************)
(* Model of the production-mix calculator "El Moflecito".                  *)
(*                                                                         *)
(* simplexMethod (src/unnamed/part_000:25-91, identical in part_001) is    *)
(* translated statement by statement.  JavaScript numbers are modelled     *)
(* exactly, in fixed point: quantities (the candidate points, the returned *)
(* variables) in 1/QtyScale, constraint coefficients in 1/CoefScale, so    *)
(* that availabilities, row sums and slacks are in 1/(QtyScale*CoefScale); *)
(* profits are whole numbers and objective values are in 1/QtyScale.       *)
(* A read past the end of an array yields undefined, which every           *)
(* arithmetic operation and comparison of the solver converts to NaN.      *)
(***************************************************************************)
EXTENDS Integers, Sequences, FiniteSets

\* One call of simplexMethod: its arguments, how it completed, and whether
\* it has been made.
VARIABLES profits, constraints, availabilities, completion, pc

\* The App component: its useState cells, the handleOptimize calls waiting
\* on their setTimeout (each with the values its closure captured), and,
\* for stating properties, the record of the solves completed so far (the
\* inputs the handler held, the inputs on screen when it resumed, the
\* Solution it stored) and the number of edits made. memo is the useMemo
\* cell of optimizationInputs: the dependency strings it was computed for
\* and the object it holds.
VARIABLES resources, products, isOptimizing, solution, timers, solves, edits,
          memo

solverVars == <<profits, constraints, availabilities, completion, pc>>
appVars ==
  <<resources, products, isOptimizing, solution, timers, solves, edits, memo>>
vars == <<solverVars, appVars>>

\* ------------------------------------------------------------ bounds
\* Largest number of decision variables (profits.length, row length) drawn.
MaxVars == 3
\* Largest number of constraints (constraints.length, availabilities.length).
MaxRows == 3
\* Largest number of completed optimizations recorded in one run of the App.
MaxSolves == 2
\* Largest number of edits made in one run of the auto-recomputing App.
MaxAutoEdits == 2
\* Largest number of input edits in one run of the App.
MaxEdits == 1

\* ------------------------------------------------------- fixed point
\* 133.33 (part_000:37) needs hundredths.
QtyScale == 100
\* 1.5 and 0.5 (part_000:99, 111) need halves.
CoefScale == 2
AvailScale == QtyScale * CoefScale

\* ------------------------------------------------ JavaScript numbers
Num(n) == [k |-> "num", v |-> n]
NaN == [k |-> "nan", v |-> 0]
NegInfinity == [k |-> "-inf", v |-> 0]

IsNum(a) == a.k = "num"

\* arr[i] for a 1-based model index; undefined (NaN once used as a number)
\* outside the array.
Get(arr, i) == IF i \in DOMAIN arr THEN Num(arr[i]) ELSE NaN

\* a * b on finite numbers and NaN.
JsMul(a, b) == IF IsNum(a) /\ IsNum(b) THEN Num(a.v * b.v) ELSE NaN

\* a + b on finite numbers and NaN.
JsAdd(a, b) == IF IsNum(a) /\ IsNum(b) THEN Num(a.v + b.v) ELSE NaN

\* a - b on finite numbers and NaN.
JsSub(a, b) == IF IsNum(a) /\ IsNum(b) THEN Num(a.v - b.v) ELSE NaN

\* a > b: false when either side is NaN; every finite number exceeds -Infinity.
JsGt(a, b) ==
  CASE a.k = "nan" \/ b.k = "nan" -> FALSE
    [] a.k = "-inf" -> FALSE
    [] b.k = "-inf" -> TRUE
    [] OTHER -> a.v > b.v

\* ------------------------------------------------------ simplexMethod
\* const solutions: number[][] (the four hardcoded candidate points).
solutions ==
  << <<0, 0, 0>>,
     <<20 * QtyScale, 0, 80 * QtyScale>>,
     <<0, 0, 13333>>,
     <<50 * QtyScale, 0, 0>> >>

\* const dualPrices = [20, 0, 20].
dualPrices == <<20, 0, 20>>

\* for (j = 0; j < solution.length; j++) sum += row[j] * solution[j];
\* from model index j, accumulator acc.
RECURSIVE RowSum(_, _, _, _)
RowSum(row, cand, j, acc) ==
  IF j > Len(cand) THEN acc
  ELSE RowSum(row, cand, j + 1,
              JsAdd(acc, JsMul(Get(row, j), Num(cand[j]))))

\* The feasibility loop over the rows i..constraints.length, with its break.
RECURSIVE FeasibleFrom(_, _, _, _)
FeasibleFrom(cons, avail, cand, i) ==
  IF i > Len(cons) THEN TRUE
  ELSE IF JsGt(RowSum(cons[i], cand, 1, Num(0)), Get(avail, i)) THEN FALSE
  ELSE FeasibleFrom(cons, avail, cand, i + 1)

\* A feasibility loop that stops one row early (i < constraints.length - 1).
feasibleSkipsLastRow(cons, avail, cand) ==
  FeasibleFrom(SubSeq(cons, 1, Len(cons) - 1), avail, cand, 1)

feasible(cons, avail, cand) == FeasibleFrom(cons, avail, cand, 1)

\* for (i = 0; i < solution.length; i++) value += solution[i] * profits[i];
RECURSIVE ValueFrom(_, _, _, _)
ValueFrom(prof, cand, i, acc) ==
  IF i > Len(cand) THEN acc
  ELSE ValueFrom(prof, cand, i + 1,
                 JsAdd(acc, JsMul(Num(cand[i]), Get(prof, i))))

value(prof, cand) == ValueFrom(prof, cand, 1, Num(0))

\* A comparison that also replaces the best on a tie (value >= bestValue).
ImprovesOrTies(val, bestValue) ==
  JsGt(val, bestValue) \/ (IsNum(val) /\ val = bestValue)

\* if (value > bestValue)
Improves(val, bestValue) == JsGt(val, bestValue)

\* for (const solution of solutions) { ... }, from candidate s (cand is the
\* loop's solution) with the running best.
RECURSIVE BestFrom(_, _, _, _, _)
BestFrom(prof, cons, avail, s, best) ==
  IF s > Len(solutions) THEN best
  ELSE LET cand == solutions[s]
           val == value(prof, cand)
           next == IF feasible(cons, avail, cand)
                      /\ Improves(val, best.bestValue)
                   THEN [bestValue |-> val, bestSolution |-> cand]
                   ELSE best
       IN BestFrom(prof, cons, avail, s + 1, next)

\* let bestValue = -Infinity; let bestSolution = [0, 0, 0]; and the loop.
Best(prof, cons, avail) ==
  BestFrom(prof, cons, avail, 1,
           [bestValue |-> NegInfinity, bestSolution |-> <<0, 0, 0>>])

\* A slack that forgets the last product (j < bestSolution.length - 1).
SlackDropsLastTerm(availI, row, bestSolution) ==
  JsSub(Num(availI),
        RowSum(row, SubSeq(bestSolution, 1, Len(bestSolution) - 1), 1, Num(0)))

\* The body of availabilities.map: avail - used.
Slack(availI, row, bestSolution) ==
  JsSub(Num(availI), RowSum(row, bestSolution, 1, Num(0)))

\* simplexMethod(profits, constraints, availabilities): a completion, either
\* the returned Solution or the TypeError of reading constraints[i][j] for a
\* row i that constraints does not have.
simplexMethod(prof, cons, avail) ==
  LET best == Best(prof, cons, avail) IN
  IF \E i \in DOMAIN avail : i \notin DOMAIN cons
  THEN [type |-> "throw", value |-> "TypeError"]
  ELSE [type |-> "return",
        value |-> [optimal |-> TRUE,
                   objectiveValue |-> best.bestValue,
                   variables |-> best.bestSolution,
                   slacks |-> [i \in DOMAIN avail |->
                                 Slack(avail[i], cons[i], best.bestSolution)],
                   dualPrices |-> dualPrices]]

\* ------------------------------------------------------------- inputs
\* All sequences over S of length 0..n.
SeqsUpTo(n, S) == UNION {[1..k -> S] : k \in 0..n}

\* resources[i].requirements[j] of the domain example (part_000:99-111), in
\* 1/CoefScale; 1 (two halves) for a row or column the example does not have.
Requirement(i, j) ==
  CASE i = 1 /\ j = 1 -> 8  [] i = 1 /\ j = 2 -> 4  [] i = 1 /\ j = 3 -> 3
    [] i = 2 /\ j = 1 -> 16 [] i = 2 /\ j = 2 -> 12 [] i = 2 /\ j = 3 -> 2
    [] i = 3 /\ j = 1 -> 4  [] i = 3 /\ j = 2 -> 3  [] i = 3 /\ j = 3 -> 1
    [] OTHER -> 2

\* products[j].profit of the domain example (part_000:116-118).
DefaultProfits == <<120, 60, 40>>

\* resources[i].available of the domain example (part_000:97, 103, 109).
DefaultAvailabilities == <<200 * AvailScale, 480 * AvailScale, 80 * AvailScale>>

ProfitValues == {0, 40, 120}
AvailValues == {-1 * AvailScale, 100 * AvailScale, 200 * AvailScale}

\* The m x w upper-left block of the example's requirements, or of an
\* identity-like table.
Matrix(m, w, alt) ==
  [i \in 1..m |-> [j \in 1..w |->
     IF alt THEN (IF i = j THEN CoefScale ELSE 0) ELSE Requirement(i, j)]]

ProfitChoices == SeqsUpTo(MaxVars, ProfitValues) \cup {DefaultProfits}
\* The m x w table of minimum-production rows, -x_i <= availabilities[i].
MinimumMatrix(m, w) ==
  [i \in 1..m |-> [j \in 1..w |-> IF i = j THEN -1 * CoefScale ELSE 0]]

ConstraintChoices ==
  {Matrix(m, w, alt) : m \in 0..MaxRows, w \in 0..MaxVars, alt \in BOOLEAN}
    \cup {MinimumMatrix(m, w) : m \in 1..MaxRows, w \in 1..MaxVars}
AvailChoices == SeqsUpTo(MaxRows, AvailValues) \cup {DefaultAvailabilities}

NotCalled == [type |-> "none", value |-> "none"]

\* ---------------------------------------------------------------- App
\* useState<Resource[]> initial value (name omitted: never written or read
\* by a handler).
InitialResources ==
  [i \in 1..3 |-> [available |-> DefaultAvailabilities[i],
                   cost |-> <<20, 100, 18>>[i],
                   requirements |-> [j \in 1..3 |-> Requirement(i, j)]]]

\* useState<Product[]> initial value.
InitialProducts == [j \in 1..3 |-> [profit |-> DefaultProfits[j]]]

\* useState<Solution> initial value of src/src/App.tsx.
InitialSolutionTsx ==
  [optimal |-> TRUE,
   objectiveValue |-> Num(5600 * QtyScale),
   variables |-> <<20 * QtyScale, 0, 80 * QtyScale>>,
   slacks |-> <<Num(0), Num(240 * AvailScale), Num(0)>>,
   dualPrices |-> <<20, 0, 20>>]

\* The useMemo value optimizationInputs of a render with these cells.
optimizationInputs(res, prods) ==
  [profits |-> [j \in DOMAIN prods |-> prods[j].profit],
   constraints |-> [i \in DOMAIN res |-> res[i].requirements],
   availabilities |-> [i \in DOMAIN res |-> res[i].available]]

\* The decimal digit d as a character.
Digit(d) ==
  CASE d = 0 -> "0" [] d = 1 -> "1" [] d = 2 -> "2" [] d = 3 -> "3"
    [] d = 4 -> "4" [] d = 5 -> "5" [] d = 6 -> "6" [] d = 7 -> "7"
    [] d = 8 -> "8" [] d = 9 -> "9"

\* The decimal digits of the natural number n, as a sequence of characters.
RECURSIVE Digits(_)
Digits(n) ==
  IF n < 10 THEN <<Digit(n)>> ELSE Digits(n \div 10) \o <<Digit(n % 10)>>

\* The digits after the decimal point of r / scale, for 0 <= r < scale.
RECURSIVE Fraction(_, _)
Fraction(r, scale) ==
  IF r = 0 THEN <<>>
  ELSE <<Digit((r * 10) \div scale)>> \o Fraction((r * 10) % scale, scale)

\* String(x) for the number x = n / scale, as join applies it to an element:
\* a sequence of characters.
NumberToString(n, scale) ==
  LET a == IF n < 0 THEN -n ELSE n IN
  (IF n < 0 THEN <<"-">> ELSE <<>>)
    \o Digits(a \div scale)
    \o (IF a % scale = 0 THEN <<>> ELSE <<".">> \o Fraction(a % scale, scale))

\* strs.join(sep) from element i on.
RECURSIVE JoinFrom(_, _, _)
JoinFrom(strs, sep, i) ==
  IF i > Len(strs) THEN <<>>
  ELSE IF i = Len(strs) THEN strs[i]
  ELSE strs[i] \o <<sep>> \o JoinFrom(strs, sep, i + 1)

join(strs, sep) == JoinFrom(strs, sep, 1)

\* A dependency array that leaves the availabilities out.
memoDepsWithoutAvailable(res, prods) ==
  <<join([j \in DOMAIN prods |-> NumberToString(prods[j].profit, 1)], ","),
    join([i \in DOMAIN res |->
            join([j \in DOMAIN res[i].requirements |->
                    NumberToString(res[i].requirements[j], CoefScale)], ",")],
         "|")>>

\* The dependency array of the optimizationInputs useMemo: the three joined
\* strings.
memoDeps(res, prods) ==
  <<join([j \in DOMAIN prods |-> NumberToString(prods[j].profit, 1)], ","),
    join([i \in DOMAIN res |->
            join([j \in DOMAIN res[i].requirements |->
                    NumberToString(res[i].requirements[j], CoefScale)], ",")],
         "|"),
    join([i \in DOMAIN res |-> NumberToString(res[i].available, AvailScale)],
         ",")>>

\* Values typed into the inputs.
AvailableEdits == {100 * AvailScale, 300 * AvailScale}
CostEdits == {0}
ProfitEdits == {0, 200}

\* handleResourceChange(index, field, value), for the two fields the form
\* binds.
handleResourceChange ==
  /\ edits < MaxEdits
  /\ \E index \in DOMAIN resources :
       \/ \E v \in AvailableEdits :
            resources' = [resources EXCEPT ![index].available = v]
       \/ \E v \in CostEdits :
            resources' = [resources EXCEPT ![index].cost = v]
  /\ edits' = edits + 1
  /\ UNCHANGED <<products, isOptimizing, solution, timers, solves, memo, solverVars>>

\* handleProductChange(index, 'profit', value).
handleProductChange ==
  /\ edits < MaxEdits
  /\ \E index \in DOMAIN products : \E v \in ProfitEdits :
       products' = [products EXCEPT ![index].profit = v]
  /\ edits' = edits + 1
  /\ UNCHANGED <<resources, isOptimizing, solution, timers, solves, memo, solverVars>>

\* A click that goes through although an optimization is in flight (a button
\* without disabled={isOptimizing}).
handleOptimizeClickAlways ==
  /\ Len(solves) + Len(timers) < MaxSolves
  /\ isOptimizing' = TRUE
  /\ timers' = Append(timers, [inputs |-> optimizationInputs(resources, products),
                               solution |-> solution])
  /\ UNCHANGED <<resources, products, solution, solves, edits, memo, solverVars>>

\* A click on the button (disabled={isOptimizing}): handleOptimize runs up
\* to its await, holding the optimizationInputs and solution of the render
\* it was created in.
handleOptimizeClick ==
  /\ ~isOptimizing
  /\ Len(solves) + Len(timers) < MaxSolves
  /\ isOptimizing' = TRUE
  /\ timers' = Append(timers, [inputs |-> optimizationInputs(resources, products),
                               solution |-> solution])
  /\ UNCHANGED <<resources, products, solution, solves, edits, memo, solverVars>>

\* Math.floor(Math.random() * 10) - 5, * 20) - 10, * 5) - 2: the draws
\* considered, out of -5..4, -10..9 and -2..2.
VariableDraws == {-5, 4}
SlackDraws == {-10, 0}
DualDraws == {-2, 0}

Max(a, b) == IF a >= b THEN a ELSE b

\* profits.reduce((acc, profit, index) => acc + profit * variables[index], 0)
RECURSIVE Reduce(_, _, _, _)
Reduce(prof, variables, index, acc) ==
  IF index > Len(prof) THEN acc
  ELSE Reduce(prof, variables, index + 1,
              JsAdd(acc, JsMul(Num(prof[index]), Get(variables, index))))

\* newSolution of src/src/App.tsx for the captured inputs and solution and
\* the draws dv, ds, dd (one per element).
newSolutionTsx(inputs, old, dv, ds, dd) ==
  [optimal |-> TRUE,
   objectiveValue |-> Reduce(inputs.profits, old.variables, 1, Num(0)),
   variables |-> [i \in DOMAIN old.variables |->
                    Max(0, old.variables[i] + dv[i] * QtyScale)],
   slacks |-> [i \in DOMAIN old.slacks |->
                 IF IsNum(old.slacks[i])
                 THEN Num(Max(0, old.slacks[i].v + ds[i] * AvailScale))
                 ELSE NaN],
   dualPrices |-> [i \in DOMAIN old.dualPrices |->
                     Max(0, old.dualPrices[i] + dd[i])]]

\* src/src/App.tsx: the timer of a handleOptimize call fires; the rest of
\* the handler runs.
handleOptimizeResumeTsx ==
  /\ timers # <<>>
  /\ LET c == Head(timers) IN
     \E dv \in [DOMAIN c.solution.variables -> VariableDraws] :
     \E ds \in [DOMAIN c.solution.slacks -> SlackDraws] :
     \E dd \in [DOMAIN c.solution.dualPrices -> DualDraws] :
       LET new == newSolutionTsx(c.inputs, c.solution, dv, ds, dd) IN
       /\ solution' = new
       /\ solves' = Append(solves, [inputs |-> c.inputs,
                                    live |-> optimizationInputs(resources, products),
                                    solution |-> new])
  /\ isOptimizing' = FALSE
  /\ timers' = Tail(timers)
  /\ UNCHANGED <<resources, products, edits, memo, solverVars>>

\* The solver harness at rest, for the specifications of the App.
SolverIdle ==
  /\ profits = DefaultProfits
  /\ constraints = Matrix(3, 3, FALSE)
  /\ availabilities = DefaultAvailabilities
  /\ completion = NotCalled
  /\ pc = "ready"

\* The App as mounted, with the given initial Solution.
AppMounted(initialSolution) ==
  /\ resources = InitialResources
  /\ products = InitialProducts
  /\ isOptimizing = FALSE
  /\ solution = initialSolution
  /\ timers = <<>>
  /\ solves = <<>>
  /\ edits = 0
  /\ memo = [deps |-> memoDeps(InitialResources, InitialProducts),
             value |-> optimizationInputs(InitialResources, InitialProducts)]

InitTsx == SolverIdle /\ AppMounted(InitialSolutionTsx)

NextTsx ==
  \/ handleResourceChange
  \/ handleProductChange
  \/ handleOptimizeClick
  \/ handleOptimizeResumeTsx

\* src/src/App.tsx.
SpecTsx == InitTsx /\ [][NextTsx]_vars

\* ------------------------------------- the button-driven App (part_000)
\* useState<Solution> initial value of part_000.
InitialSolutionButton ==
  [optimal |-> TRUE,
   objectiveValue |-> Num(0),
   variables |-> <<0, 0, 0>>,
   slacks |-> <<Num(0), Num(0), Num(0)>>,
   dualPrices |-> <<0, 0, 0>>]

\* The rest of handleOptimize once its timer has fired, calling
\* simplexMethod on inputs `used`; `held` are the inputs its closure holds.
\* A throw rejects the promise before either setter runs.
ResumeWith(held, used) ==
  /\ timers # <<>>
  /\ LET r == simplexMethod(used.profits, used.constraints, used.availabilities) IN
     IF r.type = "return"
     THEN /\ solution' = r.value
          /\ solves' = Append(solves, [inputs |-> held,
                                       live |-> optimizationInputs(resources, products),
                                       solution |-> r.value])
          /\ isOptimizing' = FALSE
     ELSE UNCHANGED <<solution, solves, isOptimizing>>
  /\ timers' = Tail(timers)
  /\ UNCHANGED <<resources, products, edits, memo, solverVars>>

\* A handler that reads the inputs on screen when it resumes instead of the
\* ones its closure holds.
handleOptimizeResumeLive ==
  /\ timers # <<>>
  /\ ResumeWith(Head(timers).inputs, optimizationInputs(resources, products))

\* part_000: the timer of a handleOptimize call fires; the handler goes on
\* with the optimizationInputs of the render it was created in.
handleOptimizeResume ==
  /\ timers # <<>>
  /\ ResumeWith(Head(timers).inputs, Head(timers).inputs)

InitButton == SolverIdle /\ AppMounted(InitialSolutionButton)

NextButton ==
  \/ handleResourceChange
  \/ handleProductChange
  \/ handleOptimizeClick
  \/ handleOptimizeResume

\* part_000.
SpecButton == InitButton /\ [][NextButton]_vars

\* The timer of the oldest pending handleOptimize call fires and its closure
\* leaves the queue: the change of timers that handleOptimizeResume, and no
\* other handler, makes.
timerFires == timers # <<>> /\ timers' = Tail(timers)

\* part_000, with the timer of every handleOptimize call firing in the end
\* (setTimeout(resolve, 1500)).
SpecButtonFair == SpecButton /\ WF_timers(timerFires)

\* --------------------------------- the auto-recomputing App (part_001)
\* The Solution of the first render.
InitialSolutionAuto ==
  simplexMethod(DefaultProfits, Matrix(3, 3, FALSE), DefaultAvailabilities).value

\* The render that follows a state update to the cells res and prods: the
\* optimizationInputs useMemo recomputes when one of its dependency strings
\* differs from the remembered one, and the solution useMemo recomputes when
\* it is handed a new optimizationInputs object. A throw of simplexMethod
\* ends the render with nothing new displayed.
render(res, prods) ==
  LET deps == memoDeps(res, prods)
      inputs == optimizationInputs(res, prods)
      r == simplexMethod(inputs.profits, inputs.constraints,
                         inputs.availabilities)
  IN IF deps = memo.deps
     THEN UNCHANGED <<memo, solution>>
     ELSE /\ memo' = [deps |-> deps, value |-> inputs]
          /\ IF r.type = "return" THEN solution' = r.value
             ELSE UNCHANGED solution

\* handleResourceChange(index, field, value) and the render it causes.
handleResourceChangeAuto ==
  /\ edits < MaxAutoEdits
  /\ \E index \in DOMAIN resources :
       \/ \E v \in AvailableEdits :
            resources' = [resources EXCEPT ![index].available = v]
       \/ \E v \in CostEdits :
            resources' = [resources EXCEPT ![index].cost = v]
  /\ render(resources', products)
  /\ edits' = edits + 1
  /\ UNCHANGED <<products, isOptimizing, timers, solves, solverVars>>

\* handleProductChange(index, 'profit', value) and the render it causes.
handleProductChangeAuto ==
  /\ edits < MaxAutoEdits
  /\ \E index \in DOMAIN products : \E v \in ProfitEdits :
       products' = [products EXCEPT ![index].profit = v]
  /\ render(resources, products')
  /\ edits' = edits + 1
  /\ UNCHANGED <<resources, isOptimizing, timers, solves, solverVars>>

InitAuto == SolverIdle /\ AppMounted(InitialSolutionAuto)

NextAuto ==
  \/ handleResourceChangeAuto
  \/ handleProductChangeAuto

\* part_001.
SpecAuto == InitAuto /\ [][NextAuto]_vars

\* --------------------------------------------------- the solver alone
Init ==
  /\ profits \in ProfitChoices
  /\ constraints \in ConstraintChoices
  /\ availabilities \in AvailChoices
  /\ completion = NotCalled
  /\ pc = "ready"
  /\ AppMounted(InitialSolutionTsx)

\* One call simplexMethod(profits, constraints, availabilities).
Solve ==
  /\ pc = "ready"
  /\ completion' = simplexMethod(profits, constraints, availabilities)
  /\ pc' = "done"
  /\ UNCHANGED <<profits, constraints, availabilities>>
  /\ UNCHANGED appVars

Next == Solve

Spec == Init /\ [][Next]_vars

\* ------------------------------------------------------------- claims
\* The call has returned a Solution.
Returned == pc = "done" /\ completion.type = "return"

\* The Problem's shape invariant: every row has profits.length entries and
\* there is one availability per row.
WellFormed ==
  /\ \A i \in DOMAIN constraints : Len(constraints[i]) = Len(profits)
  /\ Len(constraints) = Len(availabilities)

\* The mathematical dot product row . x of two vectors of one length.
RECURSIVE DotTo(_, _, _)
DotTo(row, x, n) == IF n = 0 THEN 0 ELSE DotTo(row, x, n - 1) + row[n] * x[n]

Dot(row, x) == DotTo(row, x, Len(row))

\* The returned variables have the dimension of every constraint row.
DotDefined ==
  \A i \in DOMAIN constraints :
    Len(constraints[i]) = Len(completion.value.variables)

\* The domain example: profits=[120,60,40],
\* constraints=[[4,2,1.5],[8,6,1],[2,1.5,0.5]], availabilities=[200,480,80].
ExampleCalled ==
  /\ pc = "done"
  /\ profits = <<120, 60, 40>>
  /\ constraints = << <<4 * CoefScale, 2 * CoefScale, 3>>,
                      <<8 * CoefScale, 6 * CoefScale, 1 * CoefScale>>,
                      <<2 * CoefScale, 3, 1>> >>
  /\ availabilities = <<200 * AvailScale, 480 * AvailScale, 80 * AvailScale>>

\* C1: on the domain example simplexMethod returns optimal=true,
\* variables=[20,0,80], objectiveValue=5600, slacks=[0,240,0] and
\* dualPrices=[20,0,20].
C1_ExampleOptimum ==
  ExampleCalled =>
    /\ completion.type = "return"
    /\ completion.value.optimal = TRUE
    /\ completion.value.variables = <<20 * QtyScale, 0, 80 * QtyScale>>
    /\ completion.value.objectiveValue = Num(5600 * QtyScale)
    /\ completion.value.slacks = <<Num(0), Num(240 * AvailScale), Num(0)>>
    /\ completion.value.dualPrices = <<20, 0, 20>>

\* C1 witness: the solver has been called on the domain example and has
\* returned.
C1_Witness == ExampleCalled /\ completion.type = "return"

\* C2 (as claimed): the returned variables are feasible, constraints[i] .
\* variables <= availabilities[i] for every row i and variables[j] >= 0 for
\* every j, for every input whose rows have the dimension of the variables.
C2_Feasible ==
  (Returned /\ WellFormed /\ DotDefined) =>
    /\ \A i \in DOMAIN constraints :
         Dot(constraints[i], completion.value.variables) <= availabilities[i]
    /\ \A j \in DOMAIN completion.value.variables :
         completion.value.variables[j] >= 0

\* The zero point is feasible and some variable with positive profit is
\* limited by no constraint: the objective can grow without limit.
Unbounded ==
  /\ \A i \in DOMAIN availabilities : availabilities[i] >= 0
  /\ \E j \in DOMAIN profits :
       /\ profits[j] > 0
       /\ \A i \in DOMAIN constraints : constraints[i][j] <= 0

\* Increases d of one variable tried, in 1/QtyScale: 0.01 and 1.
Steps == {1, QtyScale}

\* Raising variables[j] by d keeps every constraint within its remaining
\* slack and brings the objective above the reported objectiveValue.
ImprovingStep(j, d) ==
  LET sol == completion.value IN
  /\ \A i \in DOMAIN constraints :
       JsGt(Num(constraints[i][j] * d), sol.slacks[i]) = FALSE
  /\ JsGt(Num(Dot(profits, sol.variables) + profits[j] * d),
          sol.objectiveValue)

\* C3 (as claimed): for availabilities >= 0 the returned Solution is
\* locally optimal: no single variable can be raised within the remaining
\* slack so that the objective exceeds the reported objectiveValue (stated
\* here for the problems that have a finite optimum).
C3_LocallyOptimal ==
  (/\ Returned /\ WellFormed /\ DotDefined /\ ~Unbounded
   /\ \A i \in DOMAIN availabilities : availabilities[i] >= 0) =>
    ~ \E j \in DOMAIN completion.value.variables : \E d \in Steps :
        ImprovingStep(j, d)

\* C4 (as claimed): complementary slackness, slacks[i] > 0 implies
\* dualPrices[i] == 0, in every returned Solution.
C4_ComplementarySlackness ==
  Returned =>
    \A i \in DOMAIN completion.value.slacks :
      JsGt(completion.value.slacks[i], Num(0)) =>
        Get(completion.value.dualPrices, i) = Num(0)

Infeasible ==
  \E i \in DOMAIN availabilities :
    /\ availabilities[i] < 0
    /\ \A j \in DOMAIN constraints[i] : constraints[i][j] >= 0

\* C6 (as claimed): on an infeasible problem (a negative availability that
\* no non-negative assignment can satisfy) simplexMethod returns a Solution
\* with optimal=false.
C6_InfeasibleReported ==
  (pc = "done" /\ WellFormed /\ Infeasible) =>
    (completion.type = "return" /\ completion.value.optimal = FALSE)

\* C7 (as claimed): when the objective can increase without limit (in
\* particular one variable with positive profit and no constraint)
\* simplexMethod returns a Solution with optimal=false.
C7_UnboundedReported ==
  (pc = "done" /\ WellFormed /\ Unbounded) =>
    (completion.type = "return" /\ completion.value.optimal = FALSE)

\* C8 (as claimed): when the shapes disagree (a row whose length is not
\* profits.length, or constraints.length # availabilities.length) the call
\* ends in an error and returns no ordinary Solution.
C8_ShapeMismatchReported ==
  (pc = "done" /\ ~WellFormed) => completion.type = "throw"

\* C9 (as claimed): the returned Solution has the shape of the problem:
\* variables has length n = profits.length, slacks and dualPrices have
\* length m = constraints.length = availabilities.length.
C9_SolutionShape ==
  (Returned /\ WellFormed) =>
    /\ Len(completion.value.variables) = Len(profits)
    /\ Len(completion.value.slacks) = Len(constraints)
    /\ Len(completion.value.dualPrices) = Len(constraints)

\* C10 (as claimed): the solve step is a function of (profits, constraints,
\* availabilities) alone: any two completed solves with equal inputs
\* produced equal Solutions, whatever was displayed before them.
C10_SolveDeterministic ==
  \A a \in DOMAIN solves : \A b \in DOMAIN solves :
    solves[a].inputs = solves[b].inputs =>
      solves[a].solution = solves[b].solution

\* Points tried as evidence that the problem has a feasible point: 0 or one
\* unit of each variable.
TestPoints == [DOMAIN profits -> {0, QtyScale}]

\* Some non-negative point satisfies every constraint.
FeasiblePointExists ==
  \E x \in TestPoints :
    \A i \in DOMAIN constraints : Dot(constraints[i], x) <= availabilities[i]

\* C11 (as claimed): for profits=[0,0,0] and any constraints and
\* availabilities that admit a feasible point, objectiveValue == 0.
C11_ZeroProblem ==
  (pc = "done" /\ profits = <<0, 0, 0>> /\ WellFormed /\ FeasiblePointExists) =>
    (completion.type = "return" /\ completion.value.objectiveValue = Num(0))

\* The four candidate points the claim names:
\* [0,0,0], [20,0,80], [0,0,133.33], [50,0,0].
ClaimedCandidates ==
  << <<0, 0, 0>>,
     <<20 * QtyScale, 0, 80 * QtyScale>>,
     <<0, 0, 13333>>,
     <<50 * QtyScale, 0, 0>> >>

\* Sum of a[j] * x[j] over the entries both vectors have.
RECURSIVE CommonDotTo(_, _, _)
CommonDotTo(a, x, n) ==
  IF n = 0 THEN 0
  ELSE CommonDotTo(a, x, n - 1)
       + (IF n \in DOMAIN a /\ n \in DOMAIN x THEN a[n] * x[n] ELSE 0)

CommonDot(a, x) == CommonDotTo(a, x, Len(x))

\* The point x satisfies every constraint of the problem.
SatisfiesAll(x) ==
  \A i \in DOMAIN constraints :
    /\ i \in DOMAIN availabilities
    /\ CommonDot(constraints[i], x) <= availabilities[i]

\* The returned Solution is the earliest feasible candidate of maximal
\* objective, with that objective as objectiveValue.
BestCandidateReturned ==
  /\ completion.type = "return"
  /\ \E s \in DOMAIN ClaimedCandidates :
       LET x == ClaimedCandidates[s] IN
       /\ completion.value.variables = x
       /\ SatisfiesAll(x)
       /\ \A t \in DOMAIN ClaimedCandidates :
            SatisfiesAll(ClaimedCandidates[t]) =>
              /\ CommonDot(profits, ClaimedCandidates[t]) <= CommonDot(profits, x)
              /\ t < s => CommonDot(profits, ClaimedCandidates[t])
                            < CommonDot(profits, x)
       /\ completion.value.objectiveValue = Num(CommonDot(profits, x))

\* Some claimed candidate satisfies every constraint.
SomeCandidateFeasible ==
  \E s \in DOMAIN ClaimedCandidates : SatisfiesAll(ClaimedCandidates[s])

\* Every number the solver reads exists: profits and every row have the
\* candidates' three entries or more, and there is one availability per row.
AllEntriesRead ==
  /\ Len(profits) >= 3
  /\ \A i \in DOMAIN constraints : Len(constraints[i]) >= 3
  /\ Len(constraints) = Len(availabilities)

\* C12 (as claimed): for every input, whenever one of the four candidates
\* satisfies every constraint, simplexMethod returns the earliest feasible
\* candidate of maximal objective with that objective as objectiveValue;
\* and dualPrices is [20,0,20] in every Solution.
C12_BestCandidate_Original ==
  pc = "done" =>
    /\ SomeCandidateFeasible => BestCandidateReturned
    /\ completion.type = "return" =>
         completion.value.dualPrices = <<20, 0, 20>>

\* C12 (amended): the same, for the inputs in which profits and every
\* constraint row have at least three entries and there is exactly one
\* availability per row.
C12_BestCandidate ==
  (pc = "done" /\ AllEntriesRead) =>
    /\ SomeCandidateFeasible => BestCandidateReturned
    /\ completion.type = "return" /\ completion.value.dualPrices = <<20, 0, 20>>

\* C12 witness: the third candidate, [0,0,133.33], was returned as the best
\* feasible one although an earlier candidate was feasible too.
C12_Witness ==
  /\ pc = "done" /\ AllEntriesRead /\ Len(constraints) > 0
  /\ completion.type = "return"
  /\ completion.value.variables = <<0, 0, 13333>>
  /\ SatisfiesAll(<<0, 0, 0>>)

\* objectiveValue of Solution sol is the sum of prof[j] * sol.variables[j].
ObjectiveConsistent(sol, prof) ==
  /\ Len(prof) = Len(sol.variables)
  /\ sol.objectiveValue = Num(Dot(prof, sol.variables))

\* C13 (as claimed): in every Solution the App produces or displays (the
\* initial one, and the one stored by each completed optimization)
\* objectiveValue is the sum of profits[j] * variables[j] over the variables
\* of that Solution and the profits used for that solve.
C13_ObjectiveConsistent ==
  /\ solves = <<>> =>
       ObjectiveConsistent(solution,
         optimizationInputs(InitialResources, InitialProducts).profits)
  /\ \A a \in DOMAIN solves :
       ObjectiveConsistent(solves[a].solution, solves[a].inputs.profits)

\* simplexMethod applied to a record of inputs.
Solved(inputs) ==
  simplexMethod(inputs.profits, inputs.constraints, inputs.availabilities)

\* C14: in the button-driven App the Solution stored by a completed
\* optimization is simplexMethod of the inputs as they were at the click,
\* whatever was edited during the delay, and the displayed Solution stays
\* the one last stored (the initial one before any) through every edit.
C14_ClickTimeInputs ==
  /\ \A a \in DOMAIN solves :
       /\ Solved(solves[a].inputs).type = "return"
       /\ solves[a].solution = Solved(solves[a].inputs).value
  /\ solution = IF solves = <<>> THEN InitialSolutionButton
                ELSE solves[Len(solves)].solution

\* C14 witness: an optimization has completed whose inputs were edited
\* during the delay, in a way that changes what simplexMethod returns.
C14_Witness ==
  \E a \in DOMAIN solves :
    /\ solves[a].live # solves[a].inputs
    /\ Solved(solves[a].live) # Solved(solves[a].inputs)
    /\ solution = solves[a].solution

\* C15: in the button-driven App isOptimizing is true exactly while a
\* started optimization has not yet stored its Solution, the button takes no
\* click while isOptimizing is true, at most one optimization is in flight,
\* and every started optimization eventually stores a Solution and sets
\* isOptimizing back to false.
C15_OneOptimizationInFlight ==
  /\ [](isOptimizing <=> timers # <<>>)
  /\ [](isOptimizing => ~ENABLED handleOptimizeClick)
  /\ [](Len(timers) <= 1)
  /\ \A n \in 0..MaxSolves :
       (timers # <<>> /\ Len(solves) = n)
         ~> (Len(solves) = n + 1 /\ ~isOptimizing /\ timers = <<>>)

\* C15 witness: after one optimization has stored its Solution a second one
\* is in flight.
C15_Witness == isOptimizing /\ Len(timers) = 1 /\ Len(solves) = 1

\* The Solution that simplexMethod returns for the cells on screen.
SolutionOfCurrentInputs ==
  simplexMethod([j \in DOMAIN products |-> products[j].profit],
                [i \in DOMAIN resources |-> resources[i].requirements],
                [i \in DOMAIN resources |-> resources[i].available]).value

\* A step that changes the cost of one resource and nothing else on screen.
CostOnlyEdit ==
  /\ products' = products
  /\ \E index \in DOMAIN resources : \E v \in CostEdits :
       /\ resources[index].cost # v
       /\ resources' = [resources EXCEPT ![index].cost = v]

\* C16: in the auto-recomputing App the displayed Solution is, after any
\* sequence of edits, the one simplexMethod returns for the current profits,
\* requirements and availabilities, and an edit of a resource's cost alone
\* leaves the displayed Solution unchanged.
C16_DisplayedIsCurrent ==
  /\ [](solution = SolutionOfCurrentInputs)
  /\ [][CostOnlyEdit => solution' = solution]_vars

\* After an availability edit changed the displayed Solution, a cost has
\* been edited.
C16_Witness ==
  /\ edits = 2
  /\ solution # InitialSolutionAuto
  /\ \E i \in DOMAIN resources :
       resources[i].available # InitialResources[i].available
  /\ \E i \in DOMAIN resources : resources[i].cost # InitialResources[i].cost

====
